---- MODULE Spec2Model ----
(***************************************************************************)
(* MuleBox (src/main.cpp): the control loop of main(), the settings record *)
(* kept by savedSettings, the RAM copy of the active impulse response and  *)
(* the audio callback that runs as an interrupt over the control loop.     *)
(*                                                                         *)
(* The control context is a sequential program; pc is its position.  The   *)
(* audio callback may start between any two writes of the control context  *)
(* once hw.StartAudio has been called, and runs to completion before the   *)
(* control context continues.                                              *)
(***************************************************************************)
EXTENDS Integers, Sequences, FiniteSets, TLC

\* ---------------------------------------------------------------- constants
SETTINGS_VERSION == 4
MAX_IR_POSITIONS == 12

\* irRamBuffer has MAX_IR_BUFFER_SIZE (8192) cells in the program; the model
\* keeps the buffer small.  Kernel lengths range over 1..MAX_IR_BUFFER_SIZE.
MAX_IR_BUFFER_SIZE == 2

\* rawValue is a float; the model takes it in half units (RawScale * raw)
\* and lets it leave the nominal range 0..MAX_IR_POSITIONS-1 by RawMargin.
RawScale == 2
RawMargin == 3

\* loadSettings recursion is cut at MaxDepth entries.
MaxDepth == 4

\* hw.SetAudioBlockSize(8): the model renders blocks of BlockSize samples.
BlockSize == 1

\* Values of the input samples in[0][i], of bassBoost.Peak() and of
\* boostGainParam.Process() (0.0 .. 3.0) that the model presents.
InputSamples == {1, 2}
PeakOutputs == {1}
WetGains == {0, 3}

\* Versions and indices a record found in flash at power-up may carry.
OldVersion == SETTINGS_VERSION - 1
StoredVersions == {OldVersion, SETTINGS_VERSION}
StoredIndices == -1 .. MAX_IR_POSITIONS
CatalogSizes == 0 .. MAX_IR_POSITIONS
RawValues == (0 - RawMargin) .. (RawScale * (MAX_IR_POSITIONS - 1) + RawMargin)

\* Arguments of a direct call of loadIrToRam(int irIndex).
LoadArgs == -1 .. MAX_IR_POSITIONS

VARIABLES
    IR_COUNT,            \* ImpulseResponseData::IR_COUNT of this build
    stored,              \* the Settings record in QSPI flash
    localSettings,       \* savedSettings.GetSettings(): the RAM copy
    triggerSettingsSave, \* the dirty flag
    currentIrIndex,
    irBypass,
    irRamBuffer,         \* [0..MAX_IR_BUFFER_SIZE-1 -> sample]
    irLength,            \* the length ir was initialised with (0: never)
    pc,                  \* position of the control context
    ret,                 \* where loadIrToRam returns to
    irIndex,             \* parameter / local irIndex of loadSettings, loadIrToRam
    i,                   \* loop index of the copy in loadIrToRam
    selectedPosition,    \* local of the main loop
    shouldBypass,        \* local of the main loop
    audioOn,             \* hw.StartAudio(AudioCallback) has been called
    inCallback,          \* AudioCallback is running
    observed,            \* what the running AudioCallback read
    depth,               \* history: entries of loadSettings in this boot
    restoreCalls,        \* history: calls of RestoreDefaults in this boot
    bootRecord,          \* history: the flash record this boot started from
    pre,                 \* history: state at the start of the selection step
    tk,                  \* history: what the current tick did
    marked,              \* history: currentIrIndex at the last saveSettings
    flushed              \* history: index the last completed Save stored

progVars == <<IR_COUNT, stored, localSettings, triggerSettingsSave,
              currentIrIndex, irBypass, irRamBuffer, irLength>>
ctlVars == <<pc, ret, irIndex, i, selectedPosition, shouldBypass>>
audioVars == <<audioOn, inCallback, observed>>
histVars == <<depth, restoreCalls, bootRecord, pre, tk, marked, flushed>>
vars == <<progVars, ctlVars, audioVars, histVars>>

\* ------------------------------------------------------------ the catalog
\* ir_collection[k].length
KernelLength(k) == 1 + (k % MAX_IR_BUFFER_SIZE)

\* ir_collection[k].data[j]; 0 is the zero-initialised static buffer
KernelSample(k, j) == 1 + k * MAX_IR_BUFFER_SIZE + j

Kernel(k) == [j \in 0 .. KernelLength(k) - 1 |-> KernelSample(k, j)]

\* --------------------------------------------------------------- settings
defaultSettingsBadVersion == [version |-> OldVersion, irIndex |-> 0]

defaultSettings == [version |-> SETTINGS_VERSION, irIndex |-> 0]

SavedRecordStale(cur) == [version |-> OldVersion, irIndex |-> cur]

SavedRecordOffByOne(cur) == [version |-> SETTINGS_VERSION, irIndex |-> cur + 1]

\* saveSettings: the record written into localSettings
SavedRecord(cur) == [version |-> SETTINGS_VERSION, irIndex |-> cur]

\* loadSettings: "Clamp to valid range"
ClampIndex(idx) ==
    IF idx < 0 \/ idx >= IR_COUNT THEN 0 ELSE idx

ValidateIndexLast(idx) ==
    IF idx < 0 \/ idx >= IR_COUNT THEN IR_COUNT - 1 ELSE idx

\* loadIrToRam: "Validate index"
ValidateIndex(idx) ==
    IF idx < 0 \/ idx >= IR_COUNT THEN 0 ELSE idx

CopyContinuesInclusive(n, length) == n <= length

\* loadIrToRam: the loop condition i < irInfo.length
CopyContinues(n, length) == n < length

IrInitLengthCapacity(idx) == MAX_IR_BUFFER_SIZE

\* loadIrToRam: the length passed to ir.Init, irInfo.length
IrInitLength(idx) == KernelLength(idx)

\* --------------------------------------------------------- selection step
\* (int)(rawValue + 0.5f): conversion truncates toward zero
Quantize(raw) ==
    LET x == raw + RawScale \div 2
    IN  IF x >= 0 THEN x \div RawScale ELSE 0 - ((0 - x) \div RawScale)

\* clamp to the selector's physical range
ClampPositionNoUpper(p) == IF p < 0 THEN 0 ELSE p

ClampPosition(p) ==
    IF p < 0 THEN 0
    ELSE IF p >= MAX_IR_POSITIONS THEN MAX_IR_POSITIONS - 1 ELSE p

ShouldBypassStrict(pos) == pos > IR_COUNT

ShouldBypassNonEmpty(pos) == IR_COUNT > 0 /\ pos >= IR_COUNT

ShouldBypass(pos) == pos >= IR_COUNT

BypassChanged(sb, byp) == sb # byp

FlushAlways(trigger) == TRUE

FlushNever(trigger) == FALSE

\* main loop: if(triggerSettingsSave)
FlushNeeded(trigger) == trigger

NeedsLoadAlways(sb, pos, cur) == ~sb

NeedsLoadNever(sb, pos, cur) == FALSE

NeedsLoad(sb, pos, cur) == ~sb /\ pos # cur

\* ----------------------------------------------------------- audio callback
BoostedNoGain(monoInput, peakOutput, wetGain) == monoInput + peakOutput

\* float boosted = monoInput + (peakOutput * wetGain);
Boosted(monoInput, peakOutput, wetGain) == monoInput + peakOutput * wetGain

\* ir.Process(x): the convolution of x with the first length cells of the
\* buffer ir was initialised with, kept as a term
IrProcess(x, kernel) == [conv |-> TRUE, x |-> x, kernel |-> kernel]

\* output = boosted, without convolution
Dry(x) == [conv |-> FALSE, x |-> x, kernel |-> <<>>]

OutputAlwaysDry(bypass, x, kernel) == Dry(x)

\* float output = boosted; if (!irBypass) output = ir.Process(boosted);
Output(bypass, x, kernel) == IF ~bypass THEN IrProcess(x, kernel) ELSE Dry(x)

\* one iteration of the sample loop: the pair written to out[0][i], out[1][i]
RenderSample(bypass, kernel, wetGain, sample) ==
    LET boosted == Boosted(sample.monoInput, sample.peakOutput, wetGain)
        output == Output(bypass, boosted, kernel)
    IN  [monoInput |-> sample.monoInput,
         peakOutput |-> sample.peakOutput,
         left |-> output,
         right |-> output]

Blocks == [1 .. BlockSize -> [monoInput : InputSamples,
                              peakOutput : PeakOutputs]]

\* ------------------------------------------------------------------ Init
NoObservation == [conv |-> FALSE, length |-> 0, samples |-> <<>>,
                  wetGain |-> 0, out |-> <<>>]
NoSnapshot == [valid |-> FALSE]
NoRecord == [version |-> 0, irIndex |-> 0]
NoIndex == [valid |-> FALSE]
SomeIndex(k) == [valid |-> TRUE, index |-> k]
NoTick == [copies |-> 0, inits |-> 0, loads |-> 0, saves |-> 0,
           wrote |-> FALSE, bypassSaves |-> 0, raw |-> "nominal"]

\* where a raw selector value lies with respect to 0 .. MAX_IR_POSITIONS-1
RawRange(raw) ==
    IF raw < 0 THEN "below"
    ELSE IF raw > RawScale * (MAX_IR_POSITIONS - 1) THEN "above"
    ELSE "nominal"

RamReset ==
    /\ localSettings = defaultSettings
    /\ triggerSettingsSave = FALSE
    /\ currentIrIndex = 0
    /\ irBypass = FALSE
    /\ irRamBuffer = [j \in 0 .. MAX_IR_BUFFER_SIZE - 1 |-> 0]
    /\ irLength = 0

Init ==
    /\ IR_COUNT \in CatalogSizes
    /\ stored \in [version : StoredVersions, irIndex : StoredIndices]
    /\ RamReset
    /\ pc = "boot" /\ ret = "startAudio" /\ irIndex = 0 /\ i = 0
    /\ selectedPosition = 0 /\ shouldBypass = FALSE
    /\ audioOn = FALSE /\ inCallback = FALSE /\ observed = NoObservation
    /\ depth = 0 /\ restoreCalls = 0 /\ bootRecord = NoRecord
    /\ pre = NoSnapshot /\ tk = NoTick
    /\ marked = NoIndex /\ flushed = NoIndex

\* ---------------------------------------------------------------- boot
\* main: savedSettings.Init(defaultSettings); the RAM copy is read from flash
Boot ==
    /\ pc = "boot"
    /\ localSettings' = stored
    /\ depth' = 0 /\ restoreCalls' = 0 /\ bootRecord' = stored
    /\ pc' = "loadSettings"
    /\ UNCHANGED <<IR_COUNT, stored, triggerSettingsSave, currentIrIndex,
                   irBypass, irRamBuffer, irLength>>
    /\ UNCHANGED <<ret, irIndex, i, selectedPosition,
                   shouldBypass>>
    /\ UNCHANGED <<audioVars, pre, tk, marked, flushed>>

\* one entry of loadSettings, up to its recursive call or its call of
\* loadIrToRam
LoadSettings ==
    /\ pc = "loadSettings"
    /\ depth < MaxDepth
    /\ depth' = depth + 1
    /\ IF localSettings.version # SETTINGS_VERSION
       THEN \* savedSettings.RestoreDefaults(); loadSettings(); return;
            /\ localSettings' = defaultSettings
            /\ stored' = defaultSettings
            /\ restoreCalls' = restoreCalls + 1
            /\ UNCHANGED <<pc, ret, irIndex, irBypass>>
       ELSE /\ UNCHANGED <<localSettings, stored, restoreCalls>>
            /\ IF IR_COUNT = 0
               THEN /\ irBypass' = TRUE
                    /\ pc' = "startAudio"
                    /\ UNCHANGED <<ret, irIndex>>
               ELSE /\ irIndex' = ClampIndex(localSettings.irIndex)
                    /\ pc' = "loadIrToRam"
                    /\ ret' = "startAudio"
                    /\ UNCHANGED irBypass
    /\ UNCHANGED <<IR_COUNT, triggerSettingsSave, currentIrIndex,
                   irRamBuffer, irLength>>
    /\ UNCHANGED <<i, selectedPosition,
                   shouldBypass>>
    /\ UNCHANGED <<audioVars, bootRecord, pre, tk, marked, flushed>>

\* main: hw.StartAdc(); hw.StartAudio(AudioCallback);
StartAudio ==
    /\ pc = "startAudio"
    /\ audioOn' = TRUE
    /\ pc' = "flush"
    /\ depth' = 0 /\ restoreCalls' = 0 /\ bootRecord' = NoRecord
    /\ UNCHANGED <<progVars, ret, irIndex, i, selectedPosition,
                   shouldBypass, inCallback, observed, pre, tk, marked,
                   flushed>>

\* --------------------------------------------------------- loadIrToRam
\* entry: the empty-catalog return and the index validation
LoadIrToRamEnter ==
    /\ pc = "loadIrToRam"
    /\ ~inCallback
    /\ IF IR_COUNT = 0
       THEN /\ irBypass' = TRUE
            /\ pc' = ret
            /\ UNCHANGED <<irIndex, i>>
       ELSE /\ irIndex' = ValidateIndex(irIndex)
            /\ i' = 0
            /\ pc' = "copy"
            /\ UNCHANGED irBypass
    /\ UNCHANGED <<IR_COUNT, stored, localSettings, triggerSettingsSave,
                   currentIrIndex, irRamBuffer, irLength>>
    /\ UNCHANGED <<ret, selectedPosition, shouldBypass>>
    /\ UNCHANGED <<audioVars, histVars>>

\* one iteration of the copy loop: irRamBuffer[i] = irInfo.data[i]
CopySample ==
    /\ pc = "copy"
    /\ ~inCallback
    /\ CopyContinues(i, KernelLength(irIndex))
    /\ irRamBuffer' = [irRamBuffer EXCEPT ![i] = KernelSample(irIndex, i)]
    /\ i' = i + 1
    /\ tk' = [tk EXCEPT !.copies = 1]
    /\ UNCHANGED <<IR_COUNT, stored, localSettings, triggerSettingsSave,
                   currentIrIndex, irBypass, irLength>>
    /\ UNCHANGED <<pc, ret, irIndex, selectedPosition,
                   shouldBypass>>
    /\ UNCHANGED <<audioVars, depth, restoreCalls, bootRecord, pre, marked, flushed>>

\* ir.Init(irRamBuffer, irInfo.length)
IrInit ==
    /\ pc = "copy"
    /\ ~inCallback
    /\ ~CopyContinues(i, KernelLength(irIndex))
    /\ irLength' = IrInitLength(irIndex)
    /\ tk' = [tk EXCEPT !.inits = 1]
    /\ pc' = "setIndex"
    /\ UNCHANGED <<IR_COUNT, stored, localSettings, triggerSettingsSave,
                   currentIrIndex, irBypass, irRamBuffer>>
    /\ UNCHANGED <<ret, irIndex, i, selectedPosition,
                   shouldBypass>>
    /\ UNCHANGED <<audioVars, depth, restoreCalls, bootRecord, pre, marked, flushed>>

\* currentIrIndex = irIndex
SetCurrentIndex ==
    /\ pc = "setIndex"
    /\ ~inCallback
    /\ currentIrIndex' = irIndex
    /\ pc' = "unbypass"
    /\ UNCHANGED <<IR_COUNT, stored, localSettings, triggerSettingsSave,
                   irBypass, irRamBuffer, irLength>>
    /\ UNCHANGED <<ret, irIndex, i, selectedPosition,
                   shouldBypass>>
    /\ UNCHANGED <<audioVars, histVars>>

\* irBypass = false; return
Unbypass ==
    /\ pc = "unbypass"
    /\ ~inCallback
    /\ irBypass' = FALSE
    /\ pc' = ret
    /\ UNCHANGED <<IR_COUNT, stored, localSettings, triggerSettingsSave,
                   currentIrIndex, irRamBuffer, irLength>>
    /\ UNCHANGED <<ret, irIndex, i, selectedPosition,
                   shouldBypass>>
    /\ UNCHANGED <<audioVars, histVars>>

\* ------------------------------------------------------------ main loop
\* if(triggerSettingsSave) { savedSettings.Save(); triggerSettingsSave = false; }
Flush ==
    /\ pc = "flush"
    /\ ~inCallback
    /\ IF FlushNeeded(triggerSettingsSave)
       THEN \* savedSettings.Save(); triggerSettingsSave = false;
            /\ stored' = localSettings
            /\ flushed' = marked
            /\ triggerSettingsSave' = FALSE
            /\ tk' = [tk EXCEPT !.wrote = TRUE]
       ELSE /\ tk' = [tk EXCEPT !.wrote = FALSE]
            /\ UNCHANGED <<stored, flushed, triggerSettingsSave>>
    /\ pc' = "select"
    /\ UNCHANGED <<IR_COUNT, localSettings, currentIrIndex, irBypass,
                   irRamBuffer, irLength>>
    /\ UNCHANGED <<ret, irIndex, i, selectedPosition,
                   shouldBypass>>
    /\ UNCHANGED <<audioVars, depth, restoreCalls, bootRecord, pre, marked>>

\* the selection step up to the call of loadIrToRam: poll, quantize, clamp,
\* decide bypass, apply a bypass change (with its saveSettings call)
Select(raw) ==
    /\ pc = "select"
    /\ ~inCallback
    /\ LET pos == ClampPosition(Quantize(raw))
           sb == ShouldBypass(pos)
           chg == BypassChanged(sb, irBypass)
           load == NeedsLoad(sb, pos, currentIrIndex)
       IN  /\ selectedPosition' = pos
           /\ shouldBypass' = sb
           /\ pre' = [valid |-> TRUE,
                      irBypass |-> irBypass,
                      currentIrIndex |-> currentIrIndex,
                      localSettings |-> localSettings,
                      triggerSettingsSave |-> triggerSettingsSave,
                      irRamBuffer |-> irRamBuffer,
                      irLength |-> irLength,
                      selectedPosition |-> selectedPosition]
           /\ IF chg
              THEN /\ irBypass' = sb
                   \* saveSettings()
                   /\ localSettings' = SavedRecord(currentIrIndex)
                   /\ triggerSettingsSave' = TRUE
                   /\ marked' = SomeIndex(currentIrIndex)
              ELSE UNCHANGED <<irBypass, localSettings, triggerSettingsSave,
                               marked>>
           /\ tk' = [NoTick EXCEPT !.wrote = tk.wrote,
                                   !.saves = IF chg THEN 1 ELSE 0,
                                   !.bypassSaves = IF chg THEN 1 ELSE 0,
                                   !.loads = IF load THEN 1 ELSE 0,
                                   !.raw = RawRange(raw)]
           /\ IF load
              THEN /\ irIndex' = pos
                   /\ ret' = "save"
                   /\ pc' = "loadIrToRam"
              ELSE /\ pc' = "tickEnd"
                   /\ UNCHANGED <<irIndex, ret>>
    /\ UNCHANGED <<IR_COUNT, stored, currentIrIndex, irRamBuffer, irLength>>
    /\ UNCHANGED i
    /\ UNCHANGED <<audioVars, depth, restoreCalls, bootRecord, flushed>>

\* saveSettings() after loadIrToRam(selectedPosition)
SaveAfterLoad ==
    /\ pc = "save"
    /\ ~inCallback
    /\ localSettings' = SavedRecord(currentIrIndex)
    /\ triggerSettingsSave' = TRUE
    /\ marked' = SomeIndex(currentIrIndex)
    /\ tk' = [tk EXCEPT !.saves = tk.saves + 1]
    /\ pc' = "tickEnd"
    /\ UNCHANGED <<IR_COUNT, stored, currentIrIndex, irBypass, irRamBuffer,
                   irLength>>
    /\ UNCHANGED <<ret, irIndex, i, selectedPosition,
                   shouldBypass>>
    /\ UNCHANGED <<audioVars, depth, restoreCalls, bootRecord, pre, flushed>>

\* hw.CheckResetToBootloader(); hw.DelayMs(10); back to the top of the loop
TickEnd ==
    /\ pc = "tickEnd"
    /\ ~inCallback
    /\ pc' = "flush"
    /\ UNCHANGED <<progVars, ret, irIndex, i, selectedPosition, shouldBypass>>
    /\ UNCHANGED <<audioVars, histVars>>

\* ------------------------------------------------------- audio callback
\* AudioCallback: reads irBypass and, when not bypassed, runs ir.Process,
\* which reads the first irLength cells of the buffer ir was given
ActiveKernel == [j \in 0 .. irLength - 1 |-> irRamBuffer[j]]

CallbackSharedClearsBypass ==
    /\ irBypass' = FALSE
    /\ UNCHANGED <<IR_COUNT, stored, localSettings, triggerSettingsSave,
                   currentIrIndex, irRamBuffer, irLength>>
    /\ UNCHANGED <<ctlVars, audioOn, histVars>>

\* what AudioCallback does to the state it shares with the control
\* context: it assigns none of it
CallbackShared == UNCHANGED <<progVars, ctlVars, audioOn, histVars>>

AudioCallback(wetGain, block) ==
    /\ audioOn
    /\ ~inCallback
    /\ inCallback' = TRUE
    /\ observed' =
          [conv |-> ~irBypass,
           length |-> IF irBypass THEN 0 ELSE irLength,
           samples |-> IF irBypass THEN <<>> ELSE ActiveKernel,
           wetGain |-> wetGain,
           out |-> [n \in 1 .. BlockSize |->
                      RenderSample(irBypass, ActiveKernel, wetGain, block[n])]]
    /\ CallbackShared

\* the callback returns; its block is handed to the codec
AudioReturn ==
    /\ inCallback
    /\ inCallback' = FALSE
    /\ observed' = NoObservation
    /\ CallbackShared

\* ------------------------------------------------------------- power cycle
\* power is cycled while the main loop runs: RAM is lost, flash is kept
Reboot ==
    /\ audioOn
    /\ localSettings' = defaultSettings
    /\ triggerSettingsSave' = FALSE
    /\ currentIrIndex' = 0
    /\ irBypass' = FALSE
    /\ irRamBuffer' = [j \in 0 .. MAX_IR_BUFFER_SIZE - 1 |-> 0]
    /\ irLength' = 0
    /\ pc' = "boot" /\ ret' = "startAudio" /\ irIndex' = 0 /\ i' = 0
    /\ selectedPosition' = 0 /\ shouldBypass' = FALSE
    /\ audioOn' = FALSE /\ inCallback' = FALSE /\ observed' = NoObservation
    /\ depth' = 0 /\ restoreCalls' = 0 /\ bootRecord' = NoRecord
    /\ pre' = NoSnapshot /\ tk' = NoTick /\ marked' = NoIndex
    /\ UNCHANGED <<IR_COUNT, stored, flushed>>

Next ==
    \/ Boot
    \/ LoadSettings
    \/ StartAudio
    \/ LoadIrToRamEnter
    \/ CopySample
    \/ IrInit
    \/ SetCurrentIndex
    \/ Unbypass
    \/ Flush
    \/ \E raw \in RawValues : Select(raw)
    \/ SaveAfterLoad
    \/ TickEnd
    \/ \E wetGain \in WetGains, block \in Blocks : AudioCallback(wetGain, block)
    \/ AudioReturn
    \/ Reboot

Spec == Init /\ [][Next]_vars

\* ------------------------------------------------- the loop keeps running
\* Catalog sizes of the runs checked for progress.
MaxLiveCatalog == 2

\* the steps of the control context
Control ==
    \/ Boot
    \/ LoadSettings
    \/ StartAudio
    \/ LoadIrToRamEnter
    \/ CopySample
    \/ IrInit
    \/ SetCurrentIndex
    \/ Unbypass
    \/ Flush
    \/ \E raw \in RawValues : Select(raw)
    \/ SaveAfterLoad
    \/ TickEnd

Audio ==
    \/ \E wetGain \in WetGains, block \in Blocks : AudioCallback(wetGain, block)
    \/ AudioReturn

NextRun == Control \/ Audio

InitLive == Init /\ IR_COUNT <= MaxLiveCatalog

\* No power cycle.  The callback returns, and the while(1) loop of main gets
\* the processor between callbacks, so the control context keeps stepping.
LiveSpec ==
    /\ InitLive
    /\ [][NextRun]_vars
    /\ WF_vars(AudioReturn)
    /\ SF_vars(Control)

\* ------------------------------------------- loadIrToRam called directly
\* The end of a tick: an empty catalog is bypassed with nothing loaded, a
\* non-empty one has some kernel loaded and is bypassed or not.
InitLoad ==
    /\ IR_COUNT \in CatalogSizes
    /\ stored = defaultSettings
    /\ localSettings = defaultSettings
    /\ triggerSettingsSave = FALSE
    /\ IF IR_COUNT = 0
       THEN /\ currentIrIndex = 0
            /\ irBypass = TRUE
            /\ irLength = 0
            /\ irRamBuffer = [j \in 0 .. MAX_IR_BUFFER_SIZE - 1 |-> 0]
       ELSE /\ currentIrIndex \in 0 .. IR_COUNT - 1
            /\ irBypass \in BOOLEAN
            /\ irLength = KernelLength(currentIrIndex)
            /\ irRamBuffer =
                  [j \in 0 .. MAX_IR_BUFFER_SIZE - 1 |->
                     IF j < KernelLength(currentIrIndex)
                     THEN KernelSample(currentIrIndex, j) ELSE 0]
    /\ pc = "tickEnd" /\ ret = "save" /\ irIndex = 0 /\ i = 0
    /\ selectedPosition = 0 /\ shouldBypass = FALSE
    /\ audioOn = TRUE /\ inCallback = FALSE /\ observed = NoObservation
    /\ depth = 0 /\ restoreCalls = 0 /\ bootRecord = NoRecord
    /\ pre = NoSnapshot /\ tk = NoTick
    /\ marked = NoIndex /\ flushed = NoIndex

\* loadIrToRam(arg) is called between two ticks with any int argument,
\* as the function allows; the main loop itself only passes positions
\* below IR_COUNT.
CallLoadIrToRam(arg) ==
    /\ pc = "tickEnd"
    /\ ~inCallback
    /\ irIndex' = arg
    /\ ret' = "called"
    /\ pc' = "loadIrToRam"
    /\ pre' = [valid |-> TRUE,
               arg |-> arg,
               irBypass |-> irBypass,
               currentIrIndex |-> currentIrIndex,
               localSettings |-> localSettings,
               triggerSettingsSave |-> triggerSettingsSave,
               irRamBuffer |-> irRamBuffer,
               irLength |-> irLength,
               selectedPosition |-> selectedPosition]
    /\ tk' = [NoTick EXCEPT !.wrote = tk.wrote, !.loads = 1]
    /\ UNCHANGED <<progVars, i, selectedPosition, shouldBypass>>
    /\ UNCHANGED <<audioVars, depth, restoreCalls, bootRecord, marked, flushed>>

\* the direct call has returned
CallReturn ==
    /\ pc = "called"
    /\ ~inCallback
    /\ pc' = "tickEnd"
    /\ UNCHANGED <<progVars, ret, irIndex, i, selectedPosition,
                   shouldBypass>>
    /\ UNCHANGED <<audioVars, histVars>>

NextLoad ==
    \/ \E arg \in LoadArgs : CallLoadIrToRam(arg)
    \/ LoadIrToRamEnter
    \/ CopySample
    \/ IrInit
    \/ SetCurrentIndex
    \/ Unbypass
    \/ CallReturn

SpecLoad == InitLoad /\ [][NextLoad]_vars

\* ================================================================ claims
InCatalog(k) == k >= 0 /\ k < IR_COUNT

\* the buffer and the length held by ir are those of catalog kernel k
BufferHolds(k) ==
    /\ irLength = KernelLength(k)
    /\ \A j \in 0 .. KernelLength(k) - 1 : irRamBuffer[j] = KernelSample(k, j)

\* the selection step of the current tick has been decided
InTick == pre.valid /\ pc \in {"loadIrToRam", "copy", "setIndex", "unbypass",
                               "save", "tickEnd"}

\* C1: whenever the audio callback runs the convolution, the samples and the
\* length it reads are those of one single catalog kernel.
C1_KernelObservedWhole ==
    observed.conv =>
        \E k \in 0 .. IR_COUNT - 1 :
            /\ observed.length = KernelLength(k)
            /\ observed.samples = Kernel(k)

\* C2: at the completion of every control tick, irBypass is true exactly
\* when the quantized, clamped selectedPosition is >= IR_COUNT.
C2_BypassIffBeyondCatalog ==
    pc = "tickEnd" => (irBypass <=> selectedPosition >= IR_COUNT)

C2_Witness ==
    /\ pc = "tickEnd" /\ pre.valid
    /\ IR_COUNT > 0
    /\ ~pre.irBypass /\ irBypass
    /\ selectedPosition >= IR_COUNT

\* C3: a tick that moves the system from not-bypassed to bypassed does not
\* call saveSettings and does not set the dirty flag.
C3_NoSaveOnEnteringBypass ==
    (pc = "tickEnd" /\ pre.valid /\ ~pre.irBypass /\ irBypass)
        => (tk.saves = 0 /\ ~triggerSettingsSave)

\* C4: a tick whose position yields the applied state it already had
\* (shouldBypass = irBypass, and bypassed or selectedPosition =
\* currentIrIndex) copies nothing, does not call ir.Init, does not call
\* saveSettings or set the dirty flag, and leaves irBypass, currentIrIndex,
\* the buffer and the in-memory settings record as they were.
C4_SameSelectionIsNoOp ==
    (/\ InTick
     /\ shouldBypass = pre.irBypass
     /\ (pre.irBypass \/ selectedPosition = pre.currentIrIndex))
        => /\ pc = "tickEnd"
           /\ tk.copies = 0 /\ tk.inits = 0 /\ tk.loads = 0 /\ tk.saves = 0
           /\ triggerSettingsSave = pre.triggerSettingsSave
           /\ ~triggerSettingsSave
           /\ irBypass = pre.irBypass
           /\ currentIrIndex = pre.currentIrIndex
           /\ localSettings = pre.localSettings
           /\ irRamBuffer = pre.irRamBuffer
           /\ irLength = pre.irLength

\* two different out-of-catalog positions in consecutive ticks, bypassed
C4_Witness ==
    /\ pc = "tickEnd" /\ pre.valid
    /\ IR_COUNT > 0
    /\ pre.irBypass /\ shouldBypass
    /\ pre.selectedPosition >= IR_COUNT
    /\ selectedPosition >= IR_COUNT
    /\ pre.selectedPosition # selectedPosition

\* C5: once an index i has been saved (saveSettings, then the flush of the
\* next tick), every later boot ends loadSettings with currentIrIndex = i,
\* kernel i in the buffer and irBypass = FALSE.
C5_SaveLoadRoundTrip ==
    (pc = "startAudio" /\ flushed.valid)
        => /\ InCatalog(flushed.index)
           /\ currentIrIndex = flushed.index
           /\ BufferHolds(flushed.index)
           /\ ~irBypass

C5_Witness ==
    /\ pc = "startAudio"
    /\ flushed.valid
    /\ flushed.index > 0
    /\ currentIrIndex = flushed.index

\* C6: loadSettings is entered at most twice and calls RestoreDefaults at
\* most once in a boot; a record with another version makes it call
\* RestoreDefaults exactly once and leaves the compiled defaults in memory;
\* the re-entry finds the current version, so it does not recurse again;
\* when loadSettings has returned the record carries SETTINGS_VERSION.
C6_MigrationOnePass ==
    /\ depth <= 2
    /\ restoreCalls <= 1
    /\ (pc = "loadSettings" /\ depth >= 1)
          => localSettings.version = SETTINGS_VERSION
    /\ pc \in {"loadIrToRam", "copy", "setIndex", "unbypass", "startAudio"}
          => localSettings.version = SETTINGS_VERSION
    /\ (pc = "startAudio" /\ bootRecord.version # SETTINGS_VERSION)
          => /\ restoreCalls = 1
             /\ depth = 2
             /\ localSettings = [version |-> SETTINGS_VERSION, irIndex |-> 0]
    /\ (pc = "startAudio" /\ bootRecord.version = SETTINGS_VERSION)
          => (restoreCalls = 0 /\ depth = 1)

C6_Witness ==
    /\ pc = "startAudio"
    /\ bootRecord.version # SETTINGS_VERSION
    /\ bootRecord.irIndex > 0
    /\ restoreCalls = 1

\* C7: on load with a non-empty catalog, a stored index >= IR_COUNT yields
\* IR_COUNT - 1, a stored index < 0 yields 0, an in-range one is unchanged.
C7_ClampToNearestBoundary ==
    (/\ pc = "startAudio"
     /\ IR_COUNT > 0
     /\ bootRecord.version = SETTINGS_VERSION)
        => currentIrIndex =
              (IF bootRecord.irIndex >= IR_COUNT THEN IR_COUNT - 1
               ELSE IF bootRecord.irIndex < 0 THEN 0
               ELSE bootRecord.irIndex)

\* C8: a tick whose position p is in the catalog and differs from
\* currentIrIndex ends with currentIrIndex = p, kernel p in the buffer,
\* irBypass = FALSE and the dirty flag set; the flush of the next tick
\* writes, and the stored irIndex is then p.
C8_NewSelectionLoadedAndPersisted ==
    (/\ pre.valid
     /\ selectedPosition < IR_COUNT
     /\ selectedPosition # pre.currentIrIndex)
        => /\ pc = "tickEnd"
              => /\ currentIrIndex = selectedPosition
                 /\ BufferHolds(selectedPosition)
                 /\ ~irBypass
                 /\ triggerSettingsSave
           /\ pc = "select"
              => /\ tk.wrote
                 /\ stored.irIndex = selectedPosition

\* the last position of the selector with a full catalog, persisted
C8_Witness ==
    /\ pc = "select" /\ pre.valid
    /\ IR_COUNT = MAX_IR_POSITIONS
    /\ selectedPosition = MAX_IR_POSITIONS - 1
    /\ selectedPosition # pre.currentIrIndex
    /\ stored.irIndex = MAX_IR_POSITIONS - 1
    /\ BufferHolds(MAX_IR_POSITIONS - 1)

\* C9: a tick whose position is >= IR_COUNT (catalog non-empty) sets
\* irBypass, does not call loadIrToRam, writes no sample of the buffer and
\* leaves currentIrIndex and the in-memory irIndex as before the tick.
C9_BeyondCatalogOnlyBypasses ==
    (/\ InTick
     /\ IR_COUNT > 0
     /\ selectedPosition >= IR_COUNT)
        => /\ pc = "tickEnd"
           /\ irBypass
           /\ tk.loads = 0 /\ tk.copies = 0 /\ tk.inits = 0
           /\ irRamBuffer = pre.irRamBuffer
           /\ currentIrIndex = pre.currentIrIndex
           /\ localSettings.irIndex = pre.localSettings.irIndex

\* C10: when the flush step has written, the stored record is
\* {SETTINGS_VERSION, currentIrIndex}.
C10_StoredIsCurrentIndex ==
    (pc = "select" /\ tk.wrote)
        => stored = [version |-> SETTINGS_VERSION, irIndex |-> currentIrIndex]

\* the write follows a tick that called saveSettings twice (left bypass and
\* loaded another kernel)
C10_Witness ==
    /\ pc = "select" /\ tk.wrote
    /\ tk.saves = 2
    /\ currentIrIndex > 0

\* a step of the flush at the top of the main loop
FlushStep == pc = "flush" /\ pc' = "select"

\* C11: the flush step writes the in-memory record to flash exactly when the
\* dirty flag is set and leaves the flag false; with the flag clear it writes
\* nothing and changes no program state; the flush that follows a tick
\* without a saveSettings call does not write.
C11_FlushWritesIffDirty ==
    /\ [][FlushStep =>
            /\ tk'.wrote = triggerSettingsSave
            /\ ~triggerSettingsSave'
            /\ triggerSettingsSave => stored' = localSettings
            /\ ~triggerSettingsSave => UNCHANGED progVars]_vars
    /\ [](pc = "select" => ~triggerSettingsSave)
    /\ []((pc = "select" /\ pre.valid /\ tk.saves = 0) => ~tk.wrote)

\* the flush after a tick that changed nothing wrote nothing
C11_Witness ==
    /\ pc = "select" /\ pre.valid
    /\ tk.saves = 0 /\ tk.loads = 0
    /\ ~tk.wrote
    /\ currentIrIndex > 0

\* C12: with an empty catalog irBypass is true from the start of audio
\* processing on, no sample is copied, ir.Init is never called,
\* currentIrIndex never changes and the dirty flag is never set.
C12_EmptyCatalogAlwaysBypassed ==
    IR_COUNT = 0 =>
        /\ (audioOn \/ pc = "startAudio") => irBypass
        /\ irRamBuffer = [j \in 0 .. MAX_IR_BUFFER_SIZE - 1 |-> 0]
        /\ irLength = 0
        /\ tk.copies = 0 /\ tk.inits = 0 /\ tk.loads = 0 /\ tk.saves = 0
        /\ currentIrIndex = 0
        /\ ~triggerSettingsSave
        /\ ~tk.wrote
        /\ pc \notin {"loadIrToRam", "copy", "setIndex", "unbypass", "save"}

C12_Witness ==
    /\ IR_COUNT = 0
    /\ pc = "tickEnd" /\ pre.valid
    /\ pre.selectedPosition = 0
    /\ selectedPosition = MAX_IR_POSITIONS - 1
    /\ irBypass

\* C13: for every raw selector value, also below 0 or above
\* MAX_IR_POSITIONS-1, the selectedPosition used for the bypass decision and
\* the load is an integer in 0..MAX_IR_POSITIONS-1, whatever the catalog size.
C13_PositionInSelectorRange ==
    /\ selectedPosition \in 0 .. MAX_IR_POSITIONS - 1
    /\ (InTick /\ tk.raw = "below") => selectedPosition = 0
    /\ (InTick /\ tk.raw = "above") =>
          selectedPosition = MAX_IR_POSITIONS - 1
    /\ pc \in {"loadIrToRam", "copy", "setIndex", "unbypass"} /\ ret = "save"
          => irIndex \in 0 .. MAX_IR_POSITIONS - 1

\* a raw value above the selector's range, clamped to the last position
C13_Witness ==
    /\ pc = "tickEnd" /\ pre.valid
    /\ tk.raw = "above"
    /\ selectedPosition = MAX_IR_POSITIONS - 1
    /\ IR_COUNT < MAX_IR_POSITIONS

\* C14: every sample of a rendered block has the same value in both output
\* channels; that value is input + peak * gain when irBypass is true and the
\* convolution of input + peak * gain with the active kernel when it is false.
C14_DualMonoOutput ==
    inCallback =>
        /\ DOMAIN observed.out = 1 .. BlockSize
        /\ \A n \in 1 .. BlockSize :
              LET s == observed.out[n]
                  boosted == s.monoInput + s.peakOutput * observed.wetGain
              IN  /\ s.left = s.right
                  /\ s.left.x = boosted
                  /\ s.left.conv = ~irBypass
                  /\ ~irBypass => s.left.kernel = ActiveKernel

\* a block rendered with the convolution and the largest gain
C14_Witness ==
    /\ inCallback
    /\ ~irBypass
    /\ observed.wetGain = 3
    /\ observed.out[1].left.conv
    /\ observed.out[1].left.x > observed.out[1].monoInput

\* a step of the audio callback (its run or its return)
CallbackStep == audioOn /\ audioOn' /\ inCallback # inCallback'

\* C16: no step of AudioCallback changes irBypass, currentIrIndex,
\* irRamBuffer, the length held by ir, the in-memory settings record,
\* triggerSettingsSave or the flash record, nor moves the control context
\* (so it calls none of loadIrToRam, saveSettings, Save); while the callback
\* runs nothing else changes them either.
C16_CallbackWritesNothingShared ==
    [][(CallbackStep \/ (inCallback /\ audioOn'))
         => UNCHANGED <<irBypass, currentIrIndex, irRamBuffer, irLength,
                        localSettings, triggerSettingsSave, stored,
                        pc, tk, marked, flushed>>]_vars

\* the callback is running in the middle of a kernel copy
C16_Witness ==
    /\ inCallback
    /\ pc = "copy" /\ i > 0
    /\ ret = "save"
    /\ observed.conv

\* loadIrToRam was called directly and has returned
Called == pc = "called" /\ pre.valid

OutOfCatalogCall == Called /\ (IR_COUNT = 0 \/ ~InCatalog(pre.arg))

NoLoadHappened ==
    /\ tk.copies = 0 /\ tk.inits = 0
    /\ currentIrIndex = pre.currentIrIndex
    /\ irRamBuffer = pre.irRamBuffer
    /\ irLength = pre.irLength

SaveStep ==
    \/ pc = "save" /\ pc' = "tickEnd"
    \/ pc = "select" /\ pc' # "select" /\ tk'.saves = 1

\* C17: saveSettings writes the in-memory record and sets the dirty flag
\* without touching flash; flash changes only in the flush step (or in
\* RestoreDefaults at boot); the flag is cleared only by a flush step that
\* writes the in-memory record, so the write happens at the top of the next
\* tick, before the selector is polled; while the loop keeps running a set
\* flag leads to a completed write.
C17_MarkThenFlushNextTick ==
    /\ [][SaveStep =>
            /\ stored' = stored
            /\ triggerSettingsSave'
            /\ localSettings' = [version |-> SETTINGS_VERSION,
                                 irIndex |-> currentIrIndex]]_vars
    /\ [][stored' # stored => (FlushStep \/ pc = "loadSettings")]_vars
    /\ [][(triggerSettingsSave /\ ~triggerSettingsSave') =>
            /\ FlushStep
            /\ tk'.wrote
            /\ stored' = localSettings]_vars
    /\ [](triggerSettingsSave =>
            pc \in {"loadIrToRam", "copy", "setIndex", "unbypass", "save",
                    "tickEnd", "flush"})
    /\ (triggerSettingsSave ~> (pc = "select" /\ tk.wrote))

\* the write that follows a tick which entered bypass
C17_Witness ==
    /\ pc = "select" /\ tk.wrote
    /\ tk.saves = 1 /\ tk.loads = 0
    /\ irBypass
    /\ stored = localSettings

\* C18: every cell the copy loop of loadIrToRam writes lies inside
\* irRamBuffer, and the number of samples copied for a kernel never exceeds
\* MAX_IR_BUFFER_SIZE.
C18_CopyWithinBuffer ==
    /\ (pc = "copy" /\ ENABLED CopySample) => i \in DOMAIN irRamBuffer
    /\ pc \in {"copy", "setIndex", "unbypass"} => i <= MAX_IR_BUFFER_SIZE
    /\ pc \in {"setIndex", "unbypass"} =>
          /\ i = KernelLength(irIndex)
          /\ irLength <= MAX_IR_BUFFER_SIZE

\* a kernel that fills the whole buffer has been copied
C18_Witness ==
    /\ pc = "setIndex"
    /\ i = MAX_IR_BUFFER_SIZE
    /\ irRamBuffer[MAX_IR_BUFFER_SIZE - 1] =
          KernelSample(irIndex, MAX_IR_BUFFER_SIZE - 1)

\* C19: with a non-empty catalog currentIrIndex is always a catalog index,
\* and so is every irIndex that saveSettings puts into the in-memory record
\* and every irIndex a flush writes to flash; a position >= IR_COUNT is
\* never stored.
C19_StoredIndexInCatalog ==
    IR_COUNT > 0 =>
        /\ InCatalog(currentIrIndex)
        /\ marked.valid => InCatalog(marked.index)
        /\ triggerSettingsSave => InCatalog(localSettings.irIndex)
        /\ (pc = "select" /\ tk.wrote) => InCatalog(stored.irIndex)
        /\ flushed.valid => InCatalog(stored.irIndex)

\* a write made while the selector is beyond the catalog stores the kernel
\* index, not the position
C19_Witness ==
    /\ IR_COUNT > 0
    /\ pc = "select" /\ tk.wrote /\ pre.valid
    /\ irBypass
    /\ selectedPosition >= IR_COUNT
    /\ currentIrIndex > 0
    /\ stored.irIndex = currentIrIndex

TickBoundary == pc \in {"startAudio", "flush", "select", "tickEnd"}

\* C20: with a non-empty catalog, after loadSettings at boot and after every
\* completed tick the buffer and the length given to ir.Init are those of
\* kernel currentIrIndex, bypassed or not; a tick that leaves bypass at the
\* position of currentIrIndex copies nothing and ends un-bypassed with the
\* kernel of the selected position.
C20_BufferIsCurrentKernel ==
    IR_COUNT > 0 =>
        /\ TickBoundary => BufferHolds(currentIrIndex)
        /\ (/\ pc = "tickEnd" /\ pre.valid
            /\ pre.irBypass
            /\ selectedPosition < IR_COUNT
            /\ selectedPosition = pre.currentIrIndex)
              => /\ tk.copies = 0 /\ tk.inits = 0
                 /\ ~irBypass
                 /\ BufferHolds(selectedPosition)

C20_Witness ==
    /\ IR_COUNT > 0
    /\ pc = "tickEnd" /\ pre.valid
    /\ pre.irBypass /\ ~irBypass
    /\ selectedPosition = pre.currentIrIndex
    /\ selectedPosition > 0
    /\ tk.copies = 0
    /\ BufferHolds(selectedPosition)

====
